---- MODULE Spec2Model ----
(***************************************************************************)
(* Quantized embedding collections of torchrec/quant/embedding_modules.py: *)
(* the pooled collection (EmbeddingBagCollection), the per-occurrence      *)
(* collection (EmbeddingCollection) and the float-to-quantized conversion  *)
(* (pruned_num_embeddings, quantize_state_dict, from_float).               *)
(*                                                                         *)
(* Tensors are sequences (1-D) or sequences of rows (2-D).  An optional    *)
(* value is a sequence of length 0 (None) or 1 (the value).  A Python dict *)
(* that is iterated is a sequence of entries in insertion order.           *)
(***************************************************************************)
EXTENDS Integers, Sequences, FiniteSets, TLC

VARIABLES
    ebc_in,     \* arguments of EmbeddingBagCollection.__init__
    ebc,        \* fields of the pooled collection
    ebc_pc,     \* position of EmbeddingBagCollection.__init__ / readiness
    ebc_err,    \* exception raised by EmbeddingBagCollection.__init__
    ebc_call,   \* last forward call of the pooled collection: input, kernel calls, outcome
    ec_in,      \* arguments of EmbeddingCollection.__init__
    ec,         \* fields of the per-occurrence collection
    ec_pc,      \* position of EmbeddingCollection.__init__ / readiness
    ec_err,     \* exception raised by EmbeddingCollection.__init__
    ec_call,    \* last forward call of the per-occurrence collection
    ff_in,      \* the float module handed to from_float
    ff,         \* locals of from_float / quantize_state_dict
    ff_pc       \* position of from_float

vars == <<ebc_in, ebc, ebc_pc, ebc_err, ebc_call,
          ec_in, ec, ec_pc, ec_err, ec_call, ff_in, ff, ff_pc>>
ebc_vars == <<ebc_in, ebc, ebc_pc, ebc_err, ebc_call>>
ec_vars == <<ec_in, ec, ec_pc, ec_err, ec_call>>
ff_vars == <<ff_in, ff, ff_pc>>

(***************************************************************************)
(* Bounds of the model.                                                    *)
(***************************************************************************)
MaxTables == 3      \* longest list of tables handed to a constructor
MaxBatch == 2       \* largest batch size of a forward input
MaxLen == 2         \* longest bag of one batch item of one feature
MaxRows == 3        \* most rows of a float table handed to from_float

(***************************************************************************)
(* Generic helpers on sequences.                                           *)
(***************************************************************************)
None == <<>>
Some(v) == <<v>>

RECURSIVE SumSeq(_)
SumSeq(s) == IF s = <<>> THEN 0 ELSE Head(s) + SumSeq(Tail(s))

RECURSIVE Flatten(_)
Flatten(ss) == IF ss = <<>> THEN <<>> ELSE Head(ss) \o Flatten(Tail(ss))

Repeat(x, n) == [k \in 1..n |-> x]

Range(s) == {s[k] : k \in 1..Len(s)}

Max(S) == CHOOSE x \in S : \A y \in S : y <= x

(***************************************************************************)
(* Table configs (EmbeddingBagConfig / EmbeddingConfig).  A table's        *)
(* feature names are drawn from the pool of its name, so that every        *)
(* feature name is bound to the tables of one name only.                   *)
(***************************************************************************)
Names == {"t1", "t2", "t3"}

FeaturePool == [t1 |-> <<"f1", "g1">>, t2 |-> <<"f2", "g2">>, t3 |-> <<"f3", "g3">>]

UnknownFeature == "fx"

BagShapes ==
    { [embedding_dim |-> 1, num_embeddings |-> 2, pooling |-> "SUM",
       data_type |-> "INT8", num_features |-> 1],
      [embedding_dim |-> 2, num_embeddings |-> 2, pooling |-> "SUM",
       data_type |-> "INT8", num_features |-> 2],
      [embedding_dim |-> 1, num_embeddings |-> 2, pooling |-> "MEAN",
       data_type |-> "INT8", num_features |-> 1],
      [embedding_dim |-> 2, num_embeddings |-> 2, pooling |-> "SUM",
       data_type |-> "FP16", num_features |-> 1] }

TableConfig(name, shape) ==
    [name |-> name,
     embedding_dim |-> shape.embedding_dim,
     num_embeddings |-> shape.num_embeddings,
     pooling |-> shape.pooling,
     data_type |-> shape.data_type,
     feature_names |-> SubSeq(FeaturePool[name], 1, shape.num_features),
     pruning_indices_remapping |-> None]

EmbeddingBagConfigs == {TableConfig(n, sh) : n \in Names, sh \in BagShapes}

TableLists(configs, shortest) == UNION {[1..n -> configs] : n \in shortest..MaxTables}

\* BaseEmbeddingConfig.num_features
num_features(table) == Len(table.feature_names)

(***************************************************************************)
(* Sparse input (KeyedJaggedTensor) and its per-key view (to_dict).        *)
(***************************************************************************)
\* The jagged tensor of the k-th key of a batch of B items: bag lengths
\* cycle through 0..MaxLen, row ids through the rows every table has.
MakeJT(k, B) ==
    LET lengths == [i \in 1..B |-> (B + k + i) % (MaxLen + 1)]
        n == SumSeq(lengths)
    IN  [lengths |-> lengths,
         values |-> [j \in 1..n |-> (k + j) % 2],
         weights |-> [j \in 1..n |-> 1 + ((j + k) % 2)]]

MakeKJT(keys, B) ==
    [keys |-> keys, jts |-> [k \in 1..Len(keys) |-> MakeJT(k, B)]]

EmptyKJT == [keys |-> <<>>, jts |-> <<>>]

\* KeyedJaggedTensor.to_dict()[feature]: raises KeyError for an absent key.
HasKey(features, feature) == feature \in Range(features.keys)

GetJT(features, feature) ==
    features.jts[CHOOSE k \in 1..Len(features.keys) : features.keys[k] = feature]

RemoveAt(s, k) == SubSeq(s, 1, k - 1) \o SubSeq(s, k + 1, Len(s))

\* Key lists of an input: all bound features, the first or the last bound
\* feature left out, and all of them followed by a feature bound to no table.
KeyLists(bound) ==
    {bound, bound \o <<UnknownFeature>>}
        \cup {RemoveAt(bound, k) : k \in {1, Len(bound)} \cap (1..Len(bound))}

Inputs(bound) ==
    {MakeKJT(keys, B) : keys \in KeyLists(bound), B \in 1..MaxBatch}

(***************************************************************************)
(* External collaborators, by their contract.                              *)
(***************************************************************************)
\* fbgemm asynchronous_complete_cumsum: exclusive prefix sum with a leading 0.
asynchronous_complete_cumsum(lengths) ==
    [k \in 1..(Len(lengths) + 1) |-> SumSeq(SubSeq(lengths, 1, k - 1))]

pooling_type_to_pooling_mode(pooling) ==
    CASE pooling = "SUM" -> "PoolingMode.SUM"
      [] pooling = "MEAN" -> "PoolingMode.MEAN"
      [] OTHER -> "PoolingMode.NONE"

\* IntNBitTableBatchedEmbeddingBagsCodegen.forward: offsets hold B bag
\* boundaries per feature, feature-major; row b of the output is, for every
\* feature j of feature_table_map in order, the pooled row of bag (j, b) of
\* table feature_table_map[j].  A pooled element is kept symbolic.
KernelForward(emb_module, indices, offsets, per_sample_weights) ==
    LET T == Len(emb_module.feature_table_map)
        B == (Len(offsets) - 1) \div T
        block(j, b) ==
            LET spec == emb_module.embedding_specs[emb_module.feature_table_map[j] + 1]
                lo == offsets[(j - 1) * B + b]
                hi == offsets[(j - 1) * B + b + 1]
            IN  [d \in 1..spec.embedding_dim |->
                    [table |-> spec.name,
                     mode |-> emb_module.pooling_mode,
                     bag |-> SubSeq(indices, lo + 1, hi),
                     weights |-> IF per_sample_weights = None THEN None
                                 ELSE Some(SubSeq(per_sample_weights[1], lo + 1, hi)),
                     d |-> d]]
    IN  [b \in 1..B |-> Flatten([j \in 1..T |-> block(j, b)])]

\* torchrec.modules.embedding_modules.get_embedding_names_by_table: per
\* table, in the order of the tables, the names of its features.
get_embedding_names_by_table(tables) ==
    [k \in 1..Len(tables) |-> tables[k].feature_names]

(***************************************************************************)
(* EmbeddingBagCollection (pooled output).                                 *)
(***************************************************************************)
NewEBC ==
    [table_names |-> {},
     length_per_key |-> <<>>,
     key_to_tables |-> <<>>,
     sum_length_per_key |-> 0,
     emb_modules |-> <<>>,
     embedding_names |-> <<>>]

NoCall == [features |-> EmptyKJT, kernel_calls |-> <<>>, status |-> "none", result |-> None]

\* self._length_per_key.extend([table.embedding_dim] * len(table.feature_names))
ExtendLengthPerKey(length_per_key, table) ==
    length_per_key \o Repeat(table.embedding_dim, Len(table.feature_names))

\* A grouping that puts the group of a new key first.
GroupAppendNewFirst(key_to_tables, key, table) ==
    IF \E g \in 1..Len(key_to_tables) : key_to_tables[g].key = key
    THEN LET g == CHOOSE h \in 1..Len(key_to_tables) : key_to_tables[h].key = key
         IN  [key_to_tables EXCEPT ![g].tables = Append(@, table)]
    ELSE <<[key |-> key, tables |-> <<table>>]>> \o key_to_tables

\* self._key_to_tables[key].append(table), _key_to_tables a defaultdict(list)
GroupAppend(key_to_tables, key, table) ==
    IF \E g \in 1..Len(key_to_tables) : key_to_tables[g].key = key
    THEN LET g == CHOOSE h \in 1..Len(key_to_tables) : key_to_tables[h].key = key
         IN  [key_to_tables EXCEPT ![g].tables = Append(@, table)]
    ELSE Append(key_to_tables, [key |-> key, tables |-> <<table>>])

\* feature_table_map.extend([idx] * table.num_features()) over enumerate(emb_configs)
\* A dict as a sequence of entries [name, value] in insertion order.
DictHas(d, name) == \E k \in 1..Len(d) : d[k].name = name

DictGet(d, name) == d[CHOOSE k \in 1..Len(d) : d[k].name = name].value

\* A map with one entry per table instead of one per feature.
FeatureTableMapPerTable(emb_configs) ==
    [idx \in 1..Len(emb_configs) |-> idx - 1]

\* feature_table_map.extend([idx] * table.num_features()), idx from 0.
FeatureTableMap(emb_configs) ==
    Flatten([idx \in 1..Len(emb_configs) |-> Repeat(idx - 1, num_features(emb_configs[idx]))])

\* A list that keeps only the remap vectors of the pruned tables.
IndexRemappingCompact(emb_configs) ==
    LET pruned == SelectSeq(emb_configs, LAMBDA t : t.pruning_indices_remapping # None)
    IN  IF pruned # <<>>
        THEN Some([idx \in 1..Len(pruned) |-> pruned[idx].pruning_indices_remapping])
        ELSE None

\* index_remappings if index_remappings_non_none_count > 0 else None
IndexRemapping(emb_configs) ==
    LET index_remappings ==
            [idx \in 1..Len(emb_configs) |-> emb_configs[idx].pruning_indices_remapping]
        index_remappings_non_none_count ==
            Cardinality({idx \in 1..Len(emb_configs) :
                            emb_configs[idx].pruning_indices_remapping # None})
    IN  IF index_remappings_non_none_count > 0 THEN Some(index_remappings) ELSE None

EmbeddingSpecs(emb_configs, data_type) ==
    [idx \in 1..Len(emb_configs) |->
        [name |-> emb_configs[idx].name,
         num_embeddings |-> emb_configs[idx].num_embeddings,
         embedding_dim |-> emb_configs[idx].embedding_dim,
         sparse_type |-> data_type]]

\* weight_lists: table_name_to_quantized_weights[table.name] per table, or None
\* weight_lists: None when table_name_to_quantized_weights is None or empty,
\* else the dict's entry of every table of the group, in member order.
WeightLists(emb_configs, quantized_weights) ==
    IF quantized_weights = None \/ quantized_weights[1] = <<>> THEN None
    ELSE Some([idx \in 1..Len(emb_configs) |->
                 DictGet(quantized_weights[1], emb_configs[idx].name)])

\* One IntNBitTableBatchedEmbeddingBagsCodegen per (key, emb_configs) item.
BagKernel(group, quantized_weights) ==
    [embedding_specs |-> EmbeddingSpecs(group.tables, group.key[2]),
     pooling_mode |-> pooling_type_to_pooling_mode(group.key[1]),
     weight_lists |-> WeightLists(group.tables, quantized_weights),
     feature_table_map |-> FeatureTableMap(group.tables),
     index_remapping |-> IndexRemapping(group.tables)]

\* The (table, feature) pairs of a group in the order forward visits them.
GroupFeatures(tables) ==
    Flatten([k \in 1..Len(tables) |-> tables[k].feature_names])

\* A lookup that also rejects an input key bound to no table.
GroupRaisesOnUnknown(tables, features) ==
    \/ \E f \in Range(GroupFeatures(tables)) : ~HasKey(features, f)
    \/ HasKey(features, UnknownFeature)

\* feature_dict[feature] raises KeyError for a feature the input lacks.
GroupRaises(tables, features) ==
    \E f \in Range(GroupFeatures(tables)) : ~HasKey(features, f)

\* A gathering that collects the lengths feature by feature in the reverse
\* order of the row ids.
GroupCallLengthsReversed(tables, features, is_weighted) ==
    LET fs == GroupFeatures(tables)
        indices == Flatten([k \in 1..Len(fs) |-> GetJT(features, fs[k]).values])
        lengths == Flatten([k \in 1..Len(fs) |->
                              GetJT(features, fs[Len(fs) + 1 - k]).lengths])
        weights == Flatten([k \in 1..Len(fs) |-> GetJT(features, fs[k]).weights])
    IN  [indices |-> indices,
         offsets |-> asynchronous_complete_cumsum(lengths),
         per_sample_weights |-> IF is_weighted THEN Some(weights) ELSE None]

\* indices, offsets and weights handed to the kernel of one group.
GroupCall(tables, features, is_weighted) ==
    LET fs == GroupFeatures(tables)
        indices == Flatten([k \in 1..Len(fs) |-> GetJT(features, fs[k]).values])
        lengths == Flatten([k \in 1..Len(fs) |-> GetJT(features, fs[k]).lengths])
        weights == Flatten([k \in 1..Len(fs) |-> GetJT(features, fs[k]).weights])
    IN  [indices |-> indices,
         offsets |-> asynchronous_complete_cumsum(lengths),
         per_sample_weights |-> IF is_weighted THEN Some(weights) ELSE None]

Shape(t) == <<Len(t), IF Len(t) = 0 THEN 0 ELSE Len(t[1])>>

\* torch.stack(embeddings).reshape(-1, sum_length_per_key): None when torch
\* raises (no tensor, tensors of different shapes, a size that does not divide).
StackReshape(embeddings, sum_length_per_key) ==
    IF embeddings = <<>> THEN None
    ELSE IF \E g \in 1..Len(embeddings) : Shape(embeddings[g]) # Shape(embeddings[1])
    THEN None
    ELSE LET flat == Flatten([g \in 1..Len(embeddings) |-> Flatten(embeddings[g])])
             S == sum_length_per_key
         IN  IF S = 0 \/ Len(flat) % S # 0 THEN None
             ELSE Some([r \in 1..(Len(flat) \div S) |->
                          SubSeq(flat, (r - 1) * S + 1, r * S)])

\* EmbeddingBagCollection.forward, as the outcome of the call.
BagForward(self, is_weighted, features) ==
    LET G == Len(self.key_to_tables)
        bad == {g \in 1..G : GroupRaises(self.key_to_tables[g].tables, features)}
        done == IF bad = {} THEN G ELSE (CHOOSE g \in bad : \A h \in bad : g <= h) - 1
        calls == [g \in 1..done |->
                    GroupCall(self.key_to_tables[g].tables, features, is_weighted)]
        embeddings == [g \in 1..done |->
                    KernelForward(self.emb_modules[g], calls[g].indices,
                                  calls[g].offsets, calls[g].per_sample_weights)]
        values == StackReshape(embeddings, self.sum_length_per_key)
    IN  IF bad # {}
        THEN [features |-> features, kernel_calls |-> calls,
              status |-> "MissingFeature", result |-> None]
        ELSE IF values = None
        THEN [features |-> features, kernel_calls |-> calls,
              status |-> "RuntimeError", result |-> None]
        ELSE [features |-> features, kernel_calls |-> calls, status |-> "ok",
              result |-> Some([keys |-> self.embedding_names,
                               values |-> values[1],
                               length_per_key |-> self.length_per_key])]

\* A forward that appends the lengths of its output to the collection.
BagSelfAfterForwardAppending(self) ==
    [self EXCEPT !.length_per_key = @ \o self.length_per_key]

\* The collection after EmbeddingBagCollection.forward: the call reads
\* _key_to_tables, _emb_modules, _embedding_names, _length_per_key and
\* _sum_length_per_key and assigns to none of them.
BagSelfAfterForward(self) == self

\* __init__, lines 321-325: the table's name was seen before.
EBC_RaiseDuplicate ==
    /\ ebc_pc.at = "tables"
    /\ ebc_pc.i <= Len(ebc_in.tables)
    /\ ebc_in.tables[ebc_pc.i].name \in ebc.table_names
    /\ ebc_pc' = [ebc_pc EXCEPT !.at = "failed"]
    /\ ebc_err' = "DuplicateTableName"
    /\ UNCHANGED <<ebc_in, ebc, ebc_call, ec_vars, ff_vars>>

\* __init__, lines 322-330: one iteration of the loop over the tables.
EBC_AddTable ==
    /\ ebc_pc.at = "tables"
    /\ ebc_pc.i <= Len(ebc_in.tables)
    /\ LET table == ebc_in.tables[ebc_pc.i]
           key == <<table.pooling, table.data_type>>
       IN  /\ table.name \notin ebc.table_names
           /\ ebc' = [ebc EXCEPT
                        !.table_names = @ \cup {table.name},
                        !.length_per_key = ExtendLengthPerKey(@, table),
                        !.key_to_tables = GroupAppend(@, key, table)]
    /\ ebc_pc' = [ebc_pc EXCEPT !.i = @ + 1]
    /\ UNCHANGED <<ebc_in, ebc_err, ebc_call, ec_vars, ff_vars>>

\* __init__, line 332: the loop is over.
EBC_SumLengthPerKey ==
    /\ ebc_pc.at = "tables"
    /\ ebc_pc.i > Len(ebc_in.tables)
    /\ ebc' = [ebc EXCEPT !.sum_length_per_key = SumSeq(ebc.length_per_key)]
    /\ ebc_pc' = [at |-> "kernels", i |-> 1]
    /\ UNCHANGED <<ebc_in, ebc_err, ebc_call, ec_vars, ff_vars>>

\* __init__, lines 338-382: the kernel of the next group.
EBC_BuildKernel ==
    /\ ebc_pc.at = "kernels"
    /\ ebc_pc.i <= Len(ebc.key_to_tables)
    /\ ebc' = [ebc EXCEPT !.emb_modules =
                 Append(@, BagKernel(ebc.key_to_tables[ebc_pc.i], ebc_in.quantized_weights))]
    /\ ebc_pc' = [ebc_pc EXCEPT !.i = @ + 1]
    /\ UNCHANGED <<ebc_in, ebc_err, ebc_call, ec_vars, ff_vars>>

\* __init__, lines 384-436: the embedding names; the collection is built.
EBC_Finish ==
    /\ ebc_pc.at = "kernels"
    /\ ebc_pc.i > Len(ebc.key_to_tables)
    /\ ebc' = [ebc EXCEPT !.embedding_names =
                 Flatten(get_embedding_names_by_table(ebc_in.tables))]
    /\ ebc_pc' = [at |-> "ready", i |-> 0]
    /\ UNCHANGED <<ebc_in, ebc_err, ebc_call, ec_vars, ff_vars>>

\* forward, lines 438-500, on any input of the model.
EBC_Forward ==
    /\ ebc_pc.at = "ready"
    /\ \E features \in Inputs(Flatten(get_embedding_names_by_table(ebc_in.tables))) :
          ebc_call' = BagForward(ebc, ebc_in.is_weighted, features)
    /\ ebc' = BagSelfAfterForward(ebc)
    /\ UNCHANGED <<ebc_in, ebc_pc, ebc_err, ec_vars, ff_vars>>

(***************************************************************************)
(* EmbeddingCollection (per-occurrence output).                            *)
(***************************************************************************)
SeqShapes ==
    { [embedding_dim |-> 1, num_embeddings |-> 2, data_type |-> "INT8", num_features |-> 1],
      [embedding_dim |-> 2, num_embeddings |-> 2, data_type |-> "INT8", num_features |-> 1],
      [embedding_dim |-> 1, num_embeddings |-> 2, data_type |-> "FP16", num_features |-> 2],
      [embedding_dim |-> 1, num_embeddings |-> 2, data_type |-> "INT8", num_features |-> 0] }

EmbeddingConfig(name, shape) ==
    [name |-> name,
     embedding_dim |-> shape.embedding_dim,
     num_embeddings |-> shape.num_embeddings,
     data_type |-> shape.data_type,
     feature_names |-> SubSeq(FeaturePool[name], 1, shape.num_features)]

EmbeddingConfigs == {EmbeddingConfig(n, sh) : n \in Names, sh \in SeqShapes}

NewEC(tables, need_indices) ==
    [table_names |-> {},
     embedding_configs |-> tables,
     embedding_dim |-> -1,
     need_indices |-> need_indices,
     emb_modules |-> <<>>,
     embedding_names_by_table |-> <<>>]

\* An offsets vector one entry short: arange(0, numel).
set_fake_stbe_offsets_short(values) == [k \in 1..Len(values) |-> k - 1]

\* set_fake_stbe_offsets: torch.arange(0, values.numel() + 1)
set_fake_stbe_offsets(values) == [k \in 1..(Len(values) + 1) |-> k - 1]

\* A width that follows the table at hand instead of the first table.
NextEmbeddingDimOfLast(embedding_dim, config) == config.embedding_dim

\* config.embedding_dim if self._embedding_dim < 0 else self._embedding_dim
NextEmbeddingDim(embedding_dim, config) ==
    IF embedding_dim < 0 THEN config.embedding_dim ELSE embedding_dim

\* One IntNBitTableBatchedEmbeddingBagsCodegen per table, pooling mode SUM;
\* without a feature_table_map the kernel maps its one feature to its table.
SeqKernel(config, quantized_weights) ==
    [embedding_specs |-> <<[name |-> config.name,
                            num_embeddings |-> config.num_embeddings,
                            embedding_dim |-> config.embedding_dim,
                            sparse_type |-> config.data_type]>>,
     pooling_mode |-> "PoolingMode.SUM",
     weight_lists |-> IF quantized_weights = None THEN None
                      ELSE Some(<<quantized_weights[1][config.name]>>),
     feature_table_map |-> <<0>>,
     index_remapping |-> None]

\* if not config.feature_names: config.feature_names = [config.name]
DefaultFeatureNames(config) ==
    IF config.feature_names = <<>>
    THEN [config EXCEPT !.feature_names = <<config.name>>]
    ELSE config

\* def need_indices(self) -> bool: return self._need_indices
need_indices(self) == self.need_indices

\* `self.need_indices` in forward names the method and does not call it: the
\* condition is the truth value of a bound method object, which is true.
NeedIndicesCondition(self) == TRUE

\* The (table, feature) pairs in the order forward visits them: zip of the
\* configs with the embedding names by table, then zip of the feature names
\* with the table's embedding names.
SeqPairs(self) ==
    Flatten([k \in 1..Len(self.emb_modules) |->
        [j \in 1..Len(self.embedding_configs[k].feature_names) |->
            [table |-> k,
             feature_name |-> self.embedding_configs[k].feature_names[j],
             embedding_name |-> self.embedding_names_by_table[k][j]]]])

\* feature_embeddings[embedding_name] = JaggedTensor(...): a dict assignment.
DictPut(d, name, jt) ==
    IF \E k \in 1..Len(d) : d[k].name = name
    THEN [k \in 1..Len(d) |-> IF d[k].name = name THEN [name |-> name, jt |-> jt] ELSE d[k]]
    ELSE Append(d, [name |-> name, jt |-> jt])

RECURSIVE DictOf(_)
DictOf(entries) ==
    IF entries = <<>> THEN <<>>
    ELSE DictPut(DictOf(SubSeq(entries, 1, Len(entries) - 1)),
                 entries[Len(entries)].name, entries[Len(entries)].jt)

\* EmbeddingCollection.forward, as the outcome of the call.
SeqForward(self, features) ==
    LET pairs == SeqPairs(self)
        bad == {k \in 1..Len(pairs) : ~HasKey(features, pairs[k].feature_name)}
        done == IF bad = {} THEN Len(pairs)
                ELSE (CHOOSE k \in bad : \A l \in bad : k <= l) - 1
        calls == [k \in 1..done |->
                    LET values == GetJT(features, pairs[k].feature_name).values
                    IN  [indices |-> values,
                         offsets |-> set_fake_stbe_offsets(values),
                         per_sample_weights |-> None]]
        entries == [k \in 1..done |->
                    LET f == GetJT(features, pairs[k].feature_name)
                    IN  [name |-> pairs[k].embedding_name,
                         jt |-> [values |-> KernelForward(self.emb_modules[pairs[k].table],
                                                          calls[k].indices, calls[k].offsets,
                                                          None),
                                 lengths |-> f.lengths,
                                 weights |-> IF NeedIndicesCondition(self)
                                             THEN Some(f.values) ELSE None]]]
    IN  IF bad # {}
        THEN [features |-> features, kernel_calls |-> calls,
              status |-> "MissingFeature", result |-> None]
        ELSE [features |-> features, kernel_calls |-> calls,
              status |-> "ok", result |-> Some(DictOf(entries))]

\* __init__, lines 739-742: the table's name was seen before.
EC_RaiseDuplicate ==
    /\ ec_pc.at = "tables"
    /\ ec_pc.i <= Len(ec_in.tables)
    /\ ec.embedding_configs[ec_pc.i].name \in ec.table_names
    /\ ec_pc' = [ec_pc EXCEPT !.at = "failed"]
    /\ ec_err' = "DuplicateTableName"
    /\ UNCHANGED <<ec_in, ec, ec_call, ebc_vars, ff_vars>>

\* __init__, lines 742-751: the table's width differs from the collection's.
EC_RaiseDimMismatch ==
    /\ ec_pc.at = "tables"
    /\ ec_pc.i <= Len(ec_in.tables)
    /\ LET config == ec.embedding_configs[ec_pc.i]
       IN  /\ config.name \notin ec.table_names
           /\ NextEmbeddingDim(ec.embedding_dim, config) # config.embedding_dim
           /\ ec' = [ec EXCEPT
                       !.table_names = @ \cup {config.name},
                       !.embedding_dim = NextEmbeddingDim(@, config)]
    /\ ec_pc' = [ec_pc EXCEPT !.at = "failed"]
    /\ ec_err' = "EmbeddingDimMismatch"
    /\ UNCHANGED <<ec_in, ec_call, ebc_vars, ff_vars>>

\* __init__, lines 739-806: one iteration of the loop over the tables.
EC_AddTable ==
    /\ ec_pc.at = "tables"
    /\ ec_pc.i <= Len(ec_in.tables)
    /\ LET config == ec.embedding_configs[ec_pc.i]
       IN  /\ config.name \notin ec.table_names
           /\ NextEmbeddingDim(ec.embedding_dim, config) = config.embedding_dim
           /\ ec' = [ec EXCEPT
                       !.table_names = @ \cup {config.name},
                       !.embedding_dim = NextEmbeddingDim(@, config),
                       !.emb_modules = Append(@, SeqKernel(config, ec_in.quantized_weights)),
                       !.embedding_configs[ec_pc.i] = DefaultFeatureNames(config)]
    /\ ec_pc' = [ec_pc EXCEPT !.i = @ + 1]
    /\ UNCHANGED <<ec_in, ec_err, ec_call, ebc_vars, ff_vars>>

\* __init__, lines 808-819: the embedding names; the collection is built.
EC_Finish ==
    /\ ec_pc.at = "tables"
    /\ ec_pc.i > Len(ec_in.tables)
    /\ ec' = [ec EXCEPT !.embedding_names_by_table =
                get_embedding_names_by_table(ec.embedding_configs)]
    /\ ec_pc' = [at |-> "ready", i |-> 0]
    /\ UNCHANGED <<ec_in, ec_err, ec_call, ebc_vars, ff_vars>>

\* forward, lines 821-857, on any input of the model.
\* The collection after EmbeddingCollection.forward: the call assigns to no
\* attribute of the collection.
SeqSelfAfterForward(self) == self

EC_Forward ==
    /\ ec_pc.at = "ready"
    /\ \E features \in Inputs(Flatten(get_embedding_names_by_table(ec.embedding_configs))) :
          ec_call' = SeqForward(ec, features)
    /\ ec' = SeqSelfAfterForward(ec)
    /\ UNCHANGED <<ec_in, ec_pc, ec_err, ebc_vars, ff_vars>>

(***************************************************************************)
(* Conversion of a float module: pruned_num_embeddings, quantize_state_dict *)
(* and EmbeddingBagCollection.from_float.                                  *)
(***************************************************************************)
DataTypes == {"FP16", "INT8", "INT4", "INT2"}

\* torchrec.modules.embedding_configs.DATA_TYPE_NUM_BITS
DATA_TYPE_NUM_BITS(data_type) ==
    CASE data_type = "FP16" -> 16
      [] data_type = "INT8" -> 8
      [] data_type = "INT4" -> 4
      [] data_type = "INT2" -> 2

RECURSIVE Pow2(_)
Pow2(n) == IF n = 0 THEN 1 ELSE 2 * Pow2(n - 1)

\* The float weight of the table at place p of the module: row i holds
\* i + p, 2i + p, ..., so the rows of a table differ pairwise.
FloatWeight(p, num_rows, dim) ==
    [meta |-> FALSE,
     shape |-> <<num_rows, dim>>,
     data |-> [i \in 1..num_rows |-> [d \in 1..dim |-> i * d + p]]]

MetaWeight(num_rows, dim) == [meta |-> TRUE, shape |-> <<num_rows, dim>>, data |-> <<>>]

\* torch.empty(shape, device="meta"): a shape without data.
EmptyMeta(rows, cols) == [meta |-> TRUE, shape |-> <<rows, cols>>, data |-> <<>>]

\* IEEE-754 half-precision bits of a small non-negative integer.
HalfBits(x) ==
    IF x = 0 THEN 0
    ELSE LET e == CHOOSE k \in 0..15 : Pow2(k) <= x /\ x < Pow2(k + 1)
         IN  (e + 15) * 1024 + (x - Pow2(e)) * Pow2(10 - e)

\* tensor.half().view(torch.uint8): two bytes per element, low byte first.
HalfBytes(row) ==
    Flatten([d \in 1..Len(row) |-> <<HalfBits(row[d]) % 256, HalfBits(row[d]) \div 256>>])

\* fbgemm FloatOrHalfToFusedNBitRowwiseQuantizedSBHalf on one row: per-row
\* affine quantization, scale = (max - min) / (2^bits - 1), bias = min,
\* fields of `bits` bits packed big-endian into bytes, the last byte padded,
\* then a 4-byte trailer: the scale (kept as numerator and denominator) and
\* the bias (as the two bytes of its half-precision bits).
QuantizeRow(row, num_bits) ==
    LET lo == CHOOSE x \in Range(row) : \A y \in Range(row) : x <= y
        hi == Max(Range(row))
        levels == Pow2(num_bits) - 1
        q(x) == IF hi = lo THEN 0
                ELSE (2 * (x - lo) * levels + (hi - lo)) \div (2 * (hi - lo))
        per_byte == 8 \div num_bits
        num_bytes == (Len(row) + per_byte - 1) \div per_byte
        field(b, k) == LET d == (b - 1) * per_byte + k
                       IN  IF d <= Len(row) THEN q(row[d]) ELSE 0
        byte(b) == SumSeq([k \in 1..per_byte |->
                            field(b, k) * Pow2(num_bits * (per_byte - k))])
    IN  [b \in 1..num_bytes |-> byte(b)]
            \o <<hi - lo, levels, HalfBits(lo) % 256, HalfBits(lo) \div 256>>

\* The count of surviving rows instead of the largest new index plus one.
pruned_num_embeddings_count(pruning_indices_mapping) ==
    Cardinality({i \in 1..Len(pruning_indices_mapping) : pruning_indices_mapping[i] >= 0})

\* pruned_num_embeddings: int(torch.max(pruning_indices_mapping).item()) + 1
pruned_num_embeddings(pruning_indices_mapping) ==
    Max(Range(pruning_indices_mapping)) + 1

\* tensor[rows_mask, :] with rows_mask = pruning_indices_mapping.gt(-1): the
\* rows whose mask is set, in their order.
RECURSIVE MaskRows(_, _)
MaskRows(rows, pruning_indices_mapping) ==
    IF rows = <<>> THEN <<>>
    ELSE (IF Head(pruning_indices_mapping) > -1 THEN <<Head(rows)>> ELSE <<>>)
            \o MaskRows(Tail(rows), Tail(pruning_indices_mapping))

ScaleBiasTypes == {"INT8", "INT4", "INT2"}

\* quantize_state_dict, lines 150-208, for one entry of the state dict:
\* the pair (quant_weight, scale_shift) stored under the table's name.
QuantizeTensor(tensor, data_type, pruning) ==
    LET num_rows == IF pruning # None THEN pruned_num_embeddings(pruning[1])
                    ELSE tensor.shape[1]
        num_bits == DATA_TYPE_NUM_BITS(data_type)
    IN  IF tensor.meta
        THEN [quant_weight |-> EmptyMeta(num_rows, (tensor.shape[2] * num_bits) \div 8),
              scale_shift |-> IF data_type \in ScaleBiasTypes
                              THEN Some(EmptyMeta(num_rows, 4)) ELSE None]
        ELSE LET rows == IF pruning # None THEN MaskRows(tensor.data, pruning[1])
                         ELSE tensor.data
                 quant_res == IF data_type = "FP16"
                              THEN [i \in 1..Len(rows) |-> HalfBytes(rows[i])]
                              ELSE [i \in 1..Len(rows) |-> QuantizeRow(rows[i], num_bits)]
                 cols == IF data_type = "FP16" THEN 2 * tensor.shape[2]
                         ELSE (tensor.shape[2] * num_bits + 7) \div 8 + 4
             IN  IF data_type \in ScaleBiasTypes
                 THEN [quant_weight |->
                          [meta |-> FALSE, shape |-> <<Len(rows), cols - 4>>,
                           data |-> [i \in 1..Len(rows) |-> SubSeq(quant_res[i], 1, cols - 4)]],
                       scale_shift |->
                          Some([meta |-> FALSE, shape |-> <<Len(rows), 4>>,
                                data |-> [i \in 1..Len(rows) |->
                                            SubSeq(quant_res[i], cols - 3, cols)]])]
                 ELSE [quant_weight |->
                          [meta |-> FALSE, shape |-> <<Len(rows), cols>>, data |-> quant_res],
                       scale_shift |-> None]

\* The torch dtypes a quantization policy names.
TorchDtypes == {"torch.float16", "torch.qint8", "torch.quint4x2", "torch.quint2x4"}

\* torchrec.modules.embedding_configs.dtype_to_data_type
dtype_to_data_type(dtype) ==
    CASE dtype = "torch.float16" -> "FP16"
      [] dtype = "torch.qint8" -> "INT8"
      [] dtype = "torch.quint4x2" -> "INT4"
      [] dtype = "torch.quint2x4" -> "INT2"

\* A resolution that applies the first per-table dtype to every table.
UpdateEmbeddingConfigFirstOverride(config, quant_config) ==
    [config EXCEPT !.data_type =
        dtype_to_data_type(
            IF quant_config.per_table_weight_dtype # <<>>
            THEN quant_config.per_table_weight_dtype[1].value
            ELSE quant_config.weight)]

\* _update_embedding_configs: the per-table dtype of the table's name when
\* the qconfig has one, the qconfig's weight dtype otherwise.
UpdateEmbeddingConfig(config, quant_config) ==
    [config EXCEPT !.data_type =
        dtype_to_data_type(
            IF DictHas(quant_config.per_table_weight_dtype, config.name)
            THEN DictGet(quant_config.per_table_weight_dtype, config.name)
            ELSE quant_config.weight)]

\* A pruning step that records the remap vector and keeps the row count.
PruneConfigKeepRows(config, pruning_dict) ==
    IF DictHas(pruning_dict, config.name)
    THEN [config EXCEPT
            !.pruning_indices_remapping = Some(DictGet(pruning_dict, config.name))]
    ELSE config

\* from_float, lines 521-525: a table named in the pruning dict.
PruneConfig(config, pruning_dict) ==
    IF DictHas(pruning_dict, config.name)
    THEN [config EXCEPT
            !.num_embeddings = pruned_num_embeddings(DictGet(pruning_dict, config.name)),
            !.pruning_indices_remapping = Some(DictGet(pruning_dict, config.name))]
    ELSE config

\* quantize_state_dict: one entry per "<table>.weight" key of the state dict.
QuantizeStateDict(state_dict, configs, pruning_dict) ==
    [k \in 1..Len(state_dict) |->
        LET name == state_dict[k].name
            config == configs[CHOOSE c \in 1..Len(configs) : configs[c].name = name]
        IN  [name |-> name,
             value |-> QuantizeTensor(state_dict[k].value, config.data_type,
                                      IF DictHas(pruning_dict, name)
                                      THEN Some(DictGet(pruning_dict, name)) ELSE None)]]

\* Remap vectors over N rows: -1 (row removed) or a new row index below N.
Remaps(N) == [1..N -> -1..(N - 1)]

\* The float modules of the model: table t1 of 1..MaxRows rows and width 2
\* with any remap vector or none, optionally followed by table t2 of 2 rows
\* and width 3, unpruned or pruned.
FloatTable(name, num_rows, dim) ==
    [name |-> name, embedding_dim |-> dim, num_embeddings |-> num_rows,
     pooling |-> "SUM", data_type |-> "FP32",
     feature_names |-> FeaturePool[name], pruning_indices_remapping |-> None]

SecondTables ==
    { [tables |-> <<>>, pruning |-> <<>>],
      [tables |-> <<FloatTable("t2", 2, 3)>>, pruning |-> <<>>],
      [tables |-> <<FloatTable("t2", 2, 3)>>, pruning |-> <<[name |-> "t2", value |-> <<-1, 0>>]>>],
      [tables |-> <<FloatTable("t2", 2, 3)>>, pruning |-> <<[name |-> "t2", value |-> <<1, 0>>]>>] }

PerTableDtypes ==
    { <<>>,
      <<[name |-> "t2", value |-> "torch.quint4x2"]>>,
      <<[name |-> "t1", value |-> "torch.quint2x4"]>> }

FloatModule(N, first, second, w, per_table, meta) ==
    [embedding_bag_configs |-> <<FloatTable("t1", N, 2)>> \o second.tables,
     pruning_dict |-> first \o second.pruning,
     qconfig |-> [weight |-> w, per_table_weight_dtype |-> per_table],
     meta |-> meta,
     is_weighted |-> FALSE]

FirstPrunings(N) == {<<>>} \cup {<<[name |-> "t1", value |-> R]>> : R \in Remaps(N)}

\* The PruningRemap invariant: the kept rows are numbered 0..K-1, each once.
ValidRemap(R) ==
    LET kept == {i \in 1..Len(R) : R[i] >= 0}
    IN  /\ \A i \in 1..Len(R) : R[i] >= -1
        /\ \A i, j \in kept : i # j => R[i] # R[j]
        /\ {R[i] : i \in kept} = 0..(Cardinality(kept) - 1)

ValidFirstPrunings(N) ==
    {<<>>} \cup {<<[name |-> "t1", value |-> R]>> : R \in {Q \in Remaps(N) : ValidRemap(Q)}}

\* module.state_dict(): "<table>.weight" -> the table's float weight.
StateDict(module) ==
    [k \in 1..Len(module.embedding_bag_configs) |->
        LET config == module.embedding_bag_configs[k]
        IN  [name |-> config.name,
             value |-> IF module.meta
                       THEN MetaWeight(config.num_embeddings, config.embedding_dim)
                       ELSE FloatWeight(k, config.num_embeddings, config.embedding_dim)]]

NewFF == [configs |-> <<>>, quantized_weights |-> <<>>]

\* from_float, lines 512-516: copy the configs and set their data types.
FF_UpdateConfigs ==
    /\ ff_pc = "update"
    /\ ff' = [ff EXCEPT !.configs =
                [k \in 1..Len(ff_in.embedding_bag_configs) |->
                    UpdateEmbeddingConfig(ff_in.embedding_bag_configs[k], ff_in.qconfig)]]
    /\ ff_pc' = "prune"
    /\ UNCHANGED <<ff_in, ebc_vars, ec_vars>>

\* from_float, lines 517-525: the row counts and remap vectors of pruned tables.
FF_Prune ==
    /\ ff_pc = "prune"
    /\ ff' = [ff EXCEPT !.configs =
                [k \in 1..Len(ff.configs) |-> PruneConfig(ff.configs[k], ff_in.pruning_dict)]]
    /\ ff_pc' = "quantize"
    /\ UNCHANGED <<ff_in, ebc_vars, ec_vars>>

\* from_float, lines 527-533: quantize_state_dict.
FF_Quantize ==
    /\ ff_pc = "quantize"
    /\ ff' = [ff EXCEPT !.quantized_weights =
                QuantizeStateDict(StateDict(ff_in), ff.configs, ff_in.pruning_dict)]
    /\ ff_pc' = "construct"
    /\ UNCHANGED <<ff_in, ebc_vars, ec_vars>>

(***************************************************************************)
(* The specifications: one per component; the variables of the other       *)
(* components stay idle.                                                   *)
(***************************************************************************)
\* from_float, lines 534-547: cls(embedding_bag_configs, module.is_weighted(),
\* table_name_to_quantized_weights=...) starts the pooled constructor.
FF_Construct ==
    /\ ff_pc = "construct"
    /\ ebc_pc.at = "idle"
    /\ ebc_in' = [tables |-> ff.configs, is_weighted |-> ff_in.is_weighted,
                  quantized_weights |-> Some(ff.quantized_weights)]
    /\ ebc' = NewEBC
    /\ ebc_pc' = [at |-> "tables", i |-> 1]
    /\ ff_pc' = "constructing"
    /\ UNCHANGED <<ff_in, ff, ebc_err, ebc_call, ec_vars>>

IdleEBC ==
    /\ ebc_in = [tables |-> <<>>, is_weighted |-> FALSE, quantized_weights |-> None]
    /\ ebc = NewEBC
    /\ ebc_pc = [at |-> "idle", i |-> 0]
    /\ ebc_err = "none"
    /\ ebc_call = NoCall

IdleEC ==
    /\ ec_in = [tables |-> <<>>, need_indices |-> FALSE, quantized_weights |-> None]
    /\ ec = NewEC(<<>>, FALSE)
    /\ ec_pc = [at |-> "idle", i |-> 0]
    /\ ec_err = "none"
    /\ ec_call = NoCall

IdleFF ==
    /\ ff_in = [embedding_bag_configs |-> <<>>, pruning_dict |-> <<>>,
                qconfig |-> [weight |-> "torch.qint8", per_table_weight_dtype |-> <<>>],
                meta |-> FALSE, is_weighted |-> FALSE]
    /\ ff = NewFF
    /\ ff_pc = "idle"

InitEBC ==
    /\ ebc_in \in [tables : TableLists(EmbeddingBagConfigs, 1), is_weighted : BOOLEAN,
                   quantized_weights : {None}]
    /\ ebc = NewEBC
    /\ ebc_pc = [at |-> "tables", i |-> 1]
    /\ ebc_err = "none"
    /\ ebc_call = NoCall
    /\ IdleEC
    /\ IdleFF

NextEBC ==
    \/ EBC_RaiseDuplicate
    \/ EBC_AddTable
    \/ EBC_SumLengthPerKey
    \/ EBC_BuildKernel
    \/ EBC_Finish
    \/ EBC_Forward

SpecEBC == InitEBC /\ [][NextEBC]_vars

InitEC ==
    /\ ec_in \in [tables : TableLists(EmbeddingConfigs, 0), need_indices : BOOLEAN,
                  quantized_weights : {None}]
    /\ ec = NewEC(ec_in.tables, ec_in.need_indices)
    /\ ec_pc = [at |-> "tables", i |-> 1]
    /\ ec_err = "none"
    /\ ec_call = NoCall
    /\ IdleEBC
    /\ IdleFF

NextEC ==
    \/ EC_RaiseDuplicate
    \/ EC_RaiseDimMismatch
    \/ EC_AddTable
    \/ EC_Finish
    \/ EC_Forward

SpecEC == InitEC /\ [][NextEC]_vars

\* Either collection, constructed and then called any number of times.
InitColl == InitEBC \/ InitEC

NextColl == NextEBC \/ NextEC

SpecColl == InitColl /\ [][NextColl]_vars

InitFF ==
    /\ \E N \in 1..MaxRows : \E first \in FirstPrunings(N) :
        \E second \in SecondTables, w \in TorchDtypes, per_table \in PerTableDtypes,
           meta \in BOOLEAN :
            ff_in = FloatModule(N, first, second, w, per_table, meta)
    /\ ff = NewFF
    /\ ff_pc = "update"
    /\ IdleEBC
    /\ IdleEC

NextFF ==
    \/ FF_UpdateConfigs
    \/ FF_Prune
    \/ FF_Quantize

SpecFF == InitFF /\ [][NextFF]_vars

\* from_float through the pooled constructor, on float modules whose remap
\* vectors satisfy the PruningRemap invariant; table names are distinct.
InitFFC ==
    /\ \E N \in 1..MaxRows : \E first \in ValidFirstPrunings(N) :
        \E second \in SecondTables, w \in TorchDtypes, per_table \in PerTableDtypes,
           meta \in BOOLEAN :
            ff_in = FloatModule(N, first, second, w, per_table, meta)
    /\ ff = NewFF
    /\ ff_pc = "update"
    /\ IdleEBC
    /\ IdleEC

NextFFC ==
    \/ FF_UpdateConfigs
    \/ FF_Prune
    \/ FF_Quantize
    \/ FF_Construct
    \/ EBC_AddTable
    \/ EBC_SumLengthPerKey
    \/ EBC_BuildKernel
    \/ EBC_Finish

SpecFFC == InitFFC /\ [][NextFFC]_vars

(***************************************************************************)
(* Properties of the pooled collection.                                    *)
(***************************************************************************)
KeyOf(table) == <<table.pooling, table.data_type>>

HasDuplicateName(tables) ==
    \E k, l \in 1..Len(tables) : k < l /\ tables[k].name = tables[l].name

PosOfName(tables, name) == CHOOSE k \in 1..Len(tables) : tables[k].name = name

FirstPosOfKey(tables, key) ==
    CHOOSE k \in 1..Len(tables) :
        /\ KeyOf(tables[k]) = key
        /\ \A l \in 1..(k - 1) : KeyOf(tables[l]) # key

BagBuilt == ebc_pc.at \in {"kernels", "ready"}

BoundFeatures(tables) == UNION {Range(tables[k].feature_names) : k \in 1..Len(tables)}

\* The kernel outputs of the last forward call, recomputed from the recorded calls.
KernelOutputs ==
    [g \in 1..Len(ebc_call.kernel_calls) |->
        KernelForward(ebc.emb_modules[g], ebc_call.kernel_calls[g].indices,
                      ebc_call.kernel_calls[g].offsets,
                      ebc_call.kernel_calls[g].per_sample_weights)]

BatchSizeOf(features) == Len(features.jts[1].lengths)

\* C1: after a pooled forward on an input holding every bound feature, the
\* output has batch_size rows and total_width columns, and row i is the
\* concatenation, in group order, of row i of every group's kernel output,
\* for any number of groups of equal or different widths.
C1_RowwiseConcat ==
    (ebc_call.status \in {"ok", "RuntimeError"}) =>
        /\ ebc_call.status = "ok"
        /\ LET values == ebc_call.result[1].values
               B == BatchSizeOf(ebc_call.features)
           IN  /\ Len(values) = B
               /\ \A b \in 1..B :
                    /\ Len(values[b]) = ebc.sum_length_per_key
                    /\ values[b] =
                         Flatten([g \in 1..Len(KernelOutputs) |-> KernelOutputs[g][b]])

\* The (table, feature) column blocks in the order the groups' outputs are
\* concatenated: group order, table-major and feature-minor inside a group.
GroupBlockNames ==
    Flatten([g \in 1..Len(ebc.key_to_tables) |-> GroupFeatures(ebc.key_to_tables[g].tables)])

GroupBlockWidths ==
    Flatten([g \in 1..Len(ebc.key_to_tables) |->
        Flatten([k \in 1..Len(ebc.key_to_tables[g].tables) |->
            Repeat(ebc.key_to_tables[g].tables[k].embedding_dim,
                   Len(ebc.key_to_tables[g].tables[k].feature_names))])])

\* C2: for every accepted list of tables, the sequence of column blocks of
\* the concatenated group outputs is the sequence embedding_names with the
\* widths length_per_key, also when tables of different keys interleave.
C2_BlocksMatchEmbeddingNames ==
    (ebc_pc.at = "ready") =>
        /\ GroupBlockNames = ebc.embedding_names
        /\ GroupBlockWidths = ebc.length_per_key

\* C5: for tables with unique names, every table is in exactly one group,
\* under its own key, the groups are ordered by the first occurrence of
\* their key in the input, and every group keeps the input's relative order.
C5_StableGrouping ==
    BagBuilt =>
        LET tables == ebc_in.tables
            kt == ebc.key_to_tables
            places(k) == {gj \in UNION {{<<g, j>> : j \in 1..Len(kt[g].tables)} : g \in 1..Len(kt)} :
                            kt[gj[1]].tables[gj[2]] = tables[k]}
        IN  /\ \A k \in 1..Len(tables) : Cardinality(places(k)) = 1
            /\ SumSeq([g \in 1..Len(kt) |-> Len(kt[g].tables)]) = Len(tables)
            /\ \A g \in 1..Len(kt) : \A j \in 1..Len(kt[g].tables) :
                    KeyOf(kt[g].tables[j]) = kt[g].key
            /\ \A g, h \in 1..Len(kt) : g < h =>
                    /\ kt[g].key # kt[h].key
                    /\ FirstPosOfKey(tables, kt[g].key) < FirstPosOfKey(tables, kt[h].key)
            /\ \A g \in 1..Len(kt) : \A j, l \in 1..Len(kt[g].tables) : j < l =>
                    PosOfName(tables, kt[g].tables[j].name)
                        < PosOfName(tables, kt[g].tables[l].name)

\* Three tables whose keys interleave: the first group holds tables 1 and 3.
C5_Witness ==
    /\ ebc_pc.at = "ready"
    /\ Len(ebc_in.tables) = 3
    /\ Len(ebc.key_to_tables) = 2
    /\ ebc.key_to_tables[1].tables = <<ebc_in.tables[1], ebc_in.tables[3]>>
    /\ ebc.key_to_tables[2].tables = <<ebc_in.tables[2]>>

\* C6 as stated: a pooled forward whose input holds a feature name bound to
\* no table fails with MissingFeature and returns no output.
C6_UnknownFeatureFails ==
    (/\ ebc_call.status # "none"
     /\ \E f \in Range(ebc_call.features.keys) : f \notin BoundFeatures(ebc_in.tables)) =>
        /\ ebc_call.status = "MissingFeature"
        /\ ebc_call.result = None

\* C6 as amended: a pooled forward fails with MissingFeature, returning no
\* output, exactly when a feature bound to a table of the collection is
\* absent from the input; a feature name bound to no table is ignored.
C6_MissingBoundFeatureFails ==
    (ebc_call.status # "none") =>
        /\ (ebc_call.status = "MissingFeature") <=>
              (\E f \in BoundFeatures(ebc_in.tables) : ~HasKey(ebc_call.features, f))
        /\ (ebc_call.status = "MissingFeature") => (ebc_call.result = None)

\* A call that succeeded on an input holding a feature bound to no table.
C6_Witness ==
    /\ ebc_call.status = "ok"
    /\ UnknownFeature \in Range(ebc_call.features.keys)
    /\ ebc_call.result # None

(***************************************************************************)
(* Properties of the per-occurrence collection.                            *)
(***************************************************************************)
\* C4: construction of a pooled collection and of a per-occurrence
\* collection both fail with DuplicateTableName whenever two tables of the
\* input list have the same name, whatever their other fields and places.
C4_DuplicateNameFails ==
    /\ (HasDuplicateName(ebc_in.tables) /\ ebc_pc.at \in {"kernels", "ready", "failed"}) =>
            (ebc_pc.at = "failed" /\ ebc_err = "DuplicateTableName")
    /\ (HasDuplicateName(ec_in.tables) /\ ec_pc.at \in {"ready", "failed"}) =>
            (ec_pc.at = "failed" /\ ec_err = "DuplicateTableName")

\* C7: the output record of a feature carries the feature's row ids in its
\* auxiliary field when the collection was built with need_indices = true,
\* and no auxiliary field when it was built with need_indices = false.
C7_IndicesOnlyWhenNeeded ==
    (ec_call.status = "ok") =>
        \A k \in 1..Len(ec_call.result[1]) :
            LET pair == SeqPairs(ec)[k]
                f == GetJT(ec_call.features, pair.feature_name)
                jt == ec_call.result[1][k].jt
            IN  /\ need_indices(ec) => (jt.weights = Some(f.values))
                /\ ~need_indices(ec) => (jt.weights = None)

\* C9: for every table and every feature bound to it the kernel is called
\* with the feature's row ids and offsets [0, 1, ..., N], N the number of
\* row ids; the record's lengths are the feature's input lengths, it has one
\* value row per occurrence, and its lengths sum to N.
C9_IdentityOffsets ==
    (ec_call.status = "ok") =>
        LET pairs == SeqPairs(ec)
        IN  /\ Len(ec_call.kernel_calls) = Len(pairs)
            /\ Len(ec_call.result[1]) = Len(pairs)
            /\ \A k \in 1..Len(pairs) :
                LET f == GetJT(ec_call.features, pairs[k].feature_name)
                    N == Len(f.values)
                    call == ec_call.kernel_calls[k]
                    entry == ec_call.result[1][k]
                IN  /\ call.indices = f.values
                    /\ Len(call.offsets) = N + 1
                    /\ \A j \in 0..N : call.offsets[j + 1] = j
                    /\ entry.name = pairs[k].embedding_name
                    /\ entry.jt.lengths = f.lengths
                    /\ Len(entry.jt.values) = N
                    /\ SumSeq(entry.jt.lengths) = N
                    /\ \A j \in 1..N :
                        /\ Len(entry.jt.values[j]) = ec.embedding_configs[pairs[k].table].embedding_dim
                        /\ \A d \in 1..Len(entry.jt.values[j]) :
                            /\ entry.jt.values[j][d].bag = <<f.values[j]>>
                            /\ entry.jt.values[j][d].table = ec.embedding_configs[pairs[k].table].name

\* A call on a table with two features, one of them with an empty bag and a
\* bag of more than one row id.
C9_Witness ==
    /\ ec_call.status = "ok"
    /\ \E k \in 1..Len(ec.embedding_configs) : Len(ec.embedding_configs[k].feature_names) = 2
    /\ \E k \in 1..Len(ec_call.features.jts) :
        /\ 0 \in Range(ec_call.features.jts[k].lengths)
        /\ \E l \in Range(ec_call.features.jts[k].lengths) : l > 1
        /\ ec_call.features.keys[k] \in BoundFeatures(ec.embedding_configs)

AllSameDim(tables) ==
    \A k, l \in 1..Len(tables) : tables[k].embedding_dim = tables[l].embedding_dim

\* C10: for tables with unique names, construction fails with
\* EmbeddingDimMismatch exactly when the tables do not all have the same
\* embedding width; on success embedding_dim() is the common width.
C10_DimMismatch ==
    /\ (ec_pc.at = "failed" /\ ~HasDuplicateName(ec_in.tables)) =>
            (ec_err = "EmbeddingDimMismatch" /\ ~AllSameDim(ec_in.tables))
    /\ (ec_pc.at = "ready") =>
            /\ AllSameDim(ec_in.tables)
            /\ \A k \in 1..Len(ec_in.tables) : ec.embedding_dim = ec_in.tables[k].embedding_dim
    /\ (ec_err = "EmbeddingDimMismatch" /\ ~HasDuplicateName(ec_in.tables)) =>
            ~AllSameDim(ec_in.tables)

\* Three tables with unique names, the third of another width than the
\* first two: construction failed at the third.
C10_Witness ==
    /\ ec_pc.at = "failed"
    /\ ec_err = "EmbeddingDimMismatch"
    /\ ec_pc.i = 3
    /\ ~HasDuplicateName(ec_in.tables)

(***************************************************************************)
(* Properties of the conversion.                                           *)
(***************************************************************************)
\* The PruningRemap invariant: the non-negative values are exactly the
\* range [0, new_row_count) with no duplicates; every other value is -1.
Converted == ff_pc = "construct"

FloatTensorOf(name) == DictGet(StateDict(ff_in), name)

ConfigOf(name) == ff.configs[CHOOSE c \in 1..Len(ff.configs) : ff.configs[c].name = name]

PrunedNames == {ff_in.pruning_dict[k].name : k \in 1..Len(ff_in.pruning_dict)}

\* C3: for every remap vector R that satisfies the PruningRemap invariant,
\* after conversion the row stored at position R[i] of the pruned weight is
\* the (quantized) original row i, for every i with R[i] >= 0, also when
\* the non-negative values of R are not increasing in i.
C3_RowAtRemapIndex ==
    (Converted /\ ~ff_in.meta) =>
        \A name \in PrunedNames :
            LET R == DictGet(ff_in.pruning_dict, name)
                pruned == DictGet(ff.quantized_weights, name)
                whole == QuantizeTensor(FloatTensorOf(name), ConfigOf(name).data_type, None)
            IN  ValidRemap(R) =>
                    \A i \in 1..Len(R) : R[i] >= 0 =>
                        /\ R[i] + 1 <= Len(pruned.quant_weight.data)
                        /\ pruned.quant_weight.data[R[i] + 1] = whole.quant_weight.data[i]
                        /\ (pruned.scale_shift # None) =>
                              pruned.scale_shift[1].data[R[i] + 1] = whole.scale_shift[1].data[i]

\* C8: for every remap vector R supplied for a table, the row count
\* recorded for the table after conversion is 1 + max(R); a vector of -1
\* only gives 0 rows and selects no row for quantization.
C8_PrunedRowCount ==
    (ff_pc \in {"quantize", "construct"}) =>
        \A name \in PrunedNames :
            LET R == DictGet(ff_in.pruning_dict, name)
                largest == CHOOSE m \in Range(R) : \A y \in Range(R) : y <= m
            IN  /\ ConfigOf(name).num_embeddings = 1 + largest
                /\ ConfigOf(name).pruning_indices_remapping = Some(R)
                /\ (\A i \in 1..Len(R) : R[i] = -1) => ConfigOf(name).num_embeddings = 0
                /\ Converted =>
                    LET quant_weight == DictGet(ff.quantized_weights, name).quant_weight
                    IN  /\ ff_in.meta => quant_weight.shape[1] = 1 + largest
                        /\ (~ff_in.meta /\ \A i \in 1..Len(R) : R[i] = -1) =>
                              (quant_weight.shape[1] = 0 /\ quant_weight.data = <<>>)

\* The remap [-1, 0, 1] on a 3-row table: 2 effective rows.
C8_Witness ==
    /\ Converted
    /\ ~ff_in.meta
    /\ "t1" \in PrunedNames
    /\ DictGet(ff_in.pruning_dict, "t1") = <<-1, 0, 1>>
    /\ ConfigOf("t1").num_embeddings = 2
    /\ Len(DictGet(ff.quantized_weights, "t1").quant_weight.data) = 2

\* C11: during from_float every table's numeric format is the per-table
\* override of the table's own name when the policy has one and the
\* policy's global weight format otherwise, whatever the other tables'
\* overrides are.
C11_FormatResolution ==
    (ff_pc \in {"prune", "quantize", "construct"}) =>
        /\ Len(ff.configs) = Len(ff_in.embedding_bag_configs)
        /\ \A k \in 1..Len(ff.configs) :
            LET name == ff_in.embedding_bag_configs[k].name
                own == {e \in Range(ff_in.qconfig.per_table_weight_dtype) : e.name = name}
            IN  /\ ff.configs[k].name = name
                /\ (own # {}) =>
                      \A e \in own : ff.configs[k].data_type = dtype_to_data_type(e.value)
                /\ (own = {}) =>
                      ff.configs[k].data_type = dtype_to_data_type(ff_in.qconfig.weight)

\* Two tables, an override for t2 only that differs from the global format:
\* t1 has the global format and t2 its own.
C11_Witness ==
    /\ ff_pc = "construct"
    /\ Len(ff.configs) = 2
    /\ ff_in.qconfig.weight = "torch.qint8"
    /\ ff_in.qconfig.per_table_weight_dtype = <<[name |-> "t2", value |-> "torch.quint4x2"]>>
    /\ ff.configs[1].data_type = "INT8"
    /\ ff.configs[2].data_type = "INT4"

\* C12: a forward call on a constructed collection, successful or failed,
\* leaves the collection (table configs, groups, embedding names,
\* length_per_key, kernels with their packed weights) as construction left
\* it, and the outcome of every call is the outcome of that input on this
\* unchanged collection.
C12_ForwardFrame ==
    [][ /\ (ebc_pc.at = "ready") =>
              /\ ebc' = ebc
              /\ ebc_in' = ebc_in
              /\ ebc_pc' = ebc_pc
              /\ (ebc_call'.status # "none") =>
                    ebc_call' = BagForward(ebc, ebc_in.is_weighted, ebc_call'.features)
        /\ (ec_pc.at = "ready") =>
              /\ ec' = ec
              /\ ec_in' = ec_in
              /\ ec_pc' = ec_pc
              /\ (ec_call'.status # "none") =>
                    ec_call' = SeqForward(ec, ec_call'.features)
      ]_vars

\* A pooled forward that failed after the kernel of an earlier group ran.
C12_Witness ==
    /\ ebc_pc.at = "ready"
    /\ ebc_call.status = "MissingFeature"
    /\ ebc_call.kernel_calls # <<>>
    /\ ebc.emb_modules # <<>>

\* C13: when construction fails with DuplicateTableName, no table has been
\* placed in a group and no batched kernel has been constructed, in the
\* pooled and in the per-occurrence collection.
C13_DuplicateCheckFirst ==
    /\ (ebc_err = "DuplicateTableName") =>
          /\ ebc.key_to_tables = <<>>
          /\ ebc.emb_modules = <<>>
    /\ (ec_err = "DuplicateTableName") => ec.emb_modules = <<>>

\* C14: for a shape-only (meta) weight of a table of width w and a format of
\* b bits per element, the packed buffer has effective_row_count rows and
\* ceil(w * b / 8) columns, and a 4-byte-per-row scale/bias buffer exists
\* exactly when the format is INT8, INT4 or INT2.
C14_MetaShape ==
    (Converted /\ ff_in.meta) =>
        \A k \in 1..Len(ff_in.embedding_bag_configs) :
            LET table == ff_in.embedding_bag_configs[k]
                w == table.embedding_dim
                b == DATA_TYPE_NUM_BITS(ConfigOf(table.name).data_type)
                rows == IF table.name \in PrunedNames
                        THEN 1 + Max(Range(DictGet(ff_in.pruning_dict, table.name)))
                        ELSE table.num_embeddings
                packed == DictGet(ff.quantized_weights, table.name)
            IN  /\ packed.quant_weight.shape = <<rows, (w * b + 7) \div 8>>
                /\ (packed.scale_shift # None) <=>
                      (ConfigOf(table.name).data_type \in {"INT8", "INT4", "INT2"})
                /\ (packed.scale_shift # None) => packed.scale_shift[1].shape = <<rows, 4>>

\* The (table, feature) pairs of a group, table-major then feature-minor.
RECURSIVE PairsOf(_)
PairsOf(tables) ==
    IF tables = <<>> THEN <<>>
    ELSE [j \in 1..Len(Head(tables).feature_names) |->
             [table |-> Head(tables).name, feature |-> Head(tables).feature_names[j]]]
         \o PairsOf(Tail(tables))

RECURSIVE ConcatOver(_, _, _)
ConcatOver(pairs, features, field) ==
    IF pairs = <<>> THEN <<>>
    ELSE GetJT(features, Head(pairs).feature)[field] \o ConcatOver(Tail(pairs), features, field)

\* C15: in the pooled forward, for every group whose kernel is called, the
\* row ids, the lengths and (when weighted) the per-value weights are the
\* concatenations over the group's (table, feature) pairs, table-major then
\* feature-minor, and the offsets are the exclusive prefix sum of the
\* concatenated lengths: offsets[0] = 0, each next offset adds one length,
\* and the last offset is the number of concatenated row ids.
C15_GatherAndOffsets ==
    (ebc_call.status # "none") =>
        \A g \in 1..Len(ebc_call.kernel_calls) :
            LET call == ebc_call.kernel_calls[g]
                pairs == PairsOf(ebc.key_to_tables[g].tables)
                lengths == ConcatOver(pairs, ebc_call.features, "lengths")
            IN  /\ call.indices = ConcatOver(pairs, ebc_call.features, "values")
                /\ call.per_sample_weights =
                      IF ebc_in.is_weighted
                      THEN Some(ConcatOver(pairs, ebc_call.features, "weights"))
                      ELSE None
                /\ Len(call.offsets) = Len(lengths) + 1
                /\ call.offsets[1] = 0
                /\ \A k \in 1..Len(lengths) :
                      call.offsets[k + 1] = call.offsets[k] + lengths[k]
                /\ call.offsets[Len(call.offsets)] = Len(call.indices)

\* A weighted call on a group of two tables, one of them with two features,
\* whose bags are not all of the same length.
C15_Witness ==
    /\ ebc_call.status = "ok"
    /\ ebc_in.is_weighted
    /\ \E g \in 1..Len(ebc_call.kernel_calls) :
          /\ Len(ebc.key_to_tables[g].tables) = 2
          /\ Len(PairsOf(ebc.key_to_tables[g].tables)) = 3
          /\ \E j, k \in 1..(Len(ebc_call.kernel_calls[g].offsets) - 1) :
                ebc_call.kernel_calls[g].offsets[j + 1] - ebc_call.kernel_calls[g].offsets[j]
                  # ebc_call.kernel_calls[g].offsets[k + 1] - ebc_call.kernel_calls[g].offsets[k]

\* C16: for every group of the pooled collection, feature_table_map has one
\* entry per (table, feature) pair of the group in table-major order, the
\* entry being the index of the pair's table within the group; the map is
\* non-decreasing, its length is the sum of the tables' feature counts, and
\* index j occurs as many times as table j has features.
C16_FeatureTableMap ==
    BagBuilt =>
        \A g \in 1..Len(ebc.emb_modules) :
            LET tables == ebc.key_to_tables[g].tables
                pairs == PairsOf(tables)
                map == ebc.emb_modules[g].feature_table_map
            IN  /\ Len(map) = Len(pairs)
                /\ Len(map) = SumSeq([j \in 1..Len(tables) |-> Len(tables[j].feature_names)])
                /\ \A p \in 1..Len(map) :
                      /\ map[p] \in 0..(Len(tables) - 1)
                      /\ tables[map[p] + 1].name = pairs[p].table
                /\ \A p, q \in 1..Len(map) : p <= q => map[p] <= map[q]
                /\ \A j \in 1..Len(tables) :
                      Cardinality({p \in 1..Len(map) : map[p] = j - 1})
                          = Len(tables[j].feature_names)

\* A built group of two tables of which the second has two features.
C16_Witness ==
    /\ ebc_pc.at = "ready"
    /\ \E g \in 1..Len(ebc.emb_modules) :
          /\ Len(ebc.key_to_tables[g].tables) = 2
          /\ ebc.emb_modules[g].feature_table_map = <<0, 1, 1>>

\* C17: for every group of the pooled collection, the kernel receives no
\* remapping when no table of the group is pruned, and otherwise a list with
\* one entry per table of the group in member order, entry j being table
\* j's remap vector when that table is pruned and absent otherwise.
C17_IndexRemapping ==
    (ff_pc = "constructing" /\ BagBuilt) =>
        \A g \in 1..Len(ebc.emb_modules) :
            LET tables == ebc.key_to_tables[g].tables
                remapping == ebc.emb_modules[g].index_remapping
            IN  IF \E j \in 1..Len(tables) : tables[j].name \in PrunedNames
                THEN /\ remapping # None
                     /\ Len(remapping[1]) = Len(tables)
                     /\ \A j \in 1..Len(tables) :
                           remapping[1][j] =
                              IF tables[j].name \in PrunedNames
                              THEN Some(DictGet(ff_in.pruning_dict, tables[j].name))
                              ELSE None
                ELSE remapping = None

\* A group of two tables of which only the second is pruned.
C17_Witness ==
    /\ ff_pc = "constructing"
    /\ ebc_pc.at = "ready"
    /\ \E g \in 1..Len(ebc.emb_modules) :
          /\ Len(ebc.key_to_tables[g].tables) = 2
          /\ ebc.emb_modules[g].index_remapping = Some(<<None, Some(<<1, 0>>)>>)

\* C18: after pooled from_float, for every table the row count of its
\* embedding spec equals the number of rows of the quantized weight handed
\* to the kernel for it: the original row count for an unpruned table, and
\* for a pruned table with a valid remap vector R both 1 + max(R) and the
\* number of entries of R that are >= 0.
C18_SpecRowsMatchWeightRows ==
    (ff_pc = "constructing" /\ BagBuilt) =>
        \A g \in 1..Len(ebc.emb_modules) :
            \A j \in 1..Len(ebc.key_to_tables[g].tables) :
                LET name == ebc.key_to_tables[g].tables[j].name
                    declared == ebc.emb_modules[g].embedding_specs[j].num_embeddings
                    weight == ebc.emb_modules[g].weight_lists[1][j].quant_weight
                    original == ff_in.embedding_bag_configs[
                                    PosOfName(ff_in.embedding_bag_configs, name)]
                    R == DictGet(ff_in.pruning_dict, name)
                IN  /\ ebc.emb_modules[g].embedding_specs[j].name = name
                    /\ (name \notin PrunedNames \/ ValidRemap(R)) =>
                          /\ declared = weight.shape[1]
                          /\ ~ff_in.meta => declared = Len(weight.data)
                    /\ (name \notin PrunedNames) => declared = original.num_embeddings
                    /\ (name \in PrunedNames /\ ValidRemap(R)) =>
                          /\ declared = 1 + Max(Range(R))
                          /\ declared = Cardinality({i \in 1..Len(R) : R[i] >= 0})

\* A real (non-meta) table of three rows pruned by [1, -1, 0]: two rows
\* declared, two rows of packed weight.
C18_Witness ==
    /\ ff_pc = "constructing"
    /\ ebc_pc.at = "ready"
    /\ ~ff_in.meta
    /\ DictHas(ff_in.pruning_dict, "t1")
    /\ DictGet(ff_in.pruning_dict, "t1") = <<1, -1, 0>>
    /\ ebc.emb_modules[1].embedding_specs[1].num_embeddings = 2
    /\ Len(ebc.emb_modules[1].weight_lists[1][1].quant_weight.data) = 2

====
